---- MODULE Spec2Model ----
(***************************************************************************)
(* FarmBot (src/bot.py): the evaluation cycle run_once / execute_swap, the *)
(* daemon loop run_daemon and the entry point main, against a chain that   *)
(* answers reads, accepts or rejects raw transactions and mines them.      *)
(*                                                                         *)
(* Units.  TLC integers are 32 bits wide, so amounts are counted in        *)
(*   - centi-ether (0.01 ether = 10^16 wei) for balances and trade sizes;  *)
(*     from_wei(.,'ether') is an exact Decimal division, so comparing      *)
(*     Decimal ether amounts is comparing these integers;                  *)
(*   - gwei for gas prices; to_wei(.,'gwei') is an exact multiplication    *)
(*     applied to both arguments of min(), so the comparison is in gwei.   *)
(***************************************************************************)
EXTENDS Integers, Sequences, FiniteSets, TLC

\* ---------------------------------------------------------------- bounds
\* number of evaluation cycles the daemon is followed for
MaxCycles == 2
\* account balances read from the chain: 0, 5, ..., 5 * MaxBalanceSteps
MaxBalanceSteps == 4
\* gas prices read from the chain: 0, 30, ..., 30 * MaxGasPriceSteps (gwei)
MaxGasPriceSteps == 2
\* observed gas prices and ceilings given to get_gas_price alone (gwei)
MaxObserved == 25
MaxCeiling == 25
\* input amounts given to estimate_usdc_output alone (centi-ether)
MaxAmount == 10
\* slippage tolerances given to estimate_usdc_output alone (percent)
MaxSlippage == 99

\* ------------------------------------------------- inputs and environment
Modes == {"daemon", "once", "status"}
\* MAX_GAS_PRICE settings (gwei); 50 is the default
MaxGasPrices == {10, 50}
\* MIN_ETH_BALANCE settings (centi-ether); 10 = 0.1 ether is the default
MinEthBalances == {0, 10}
\* SLIPPAGE_TOLERANCE settings, in percent; 5 = 0.05 is the default
SlippageTolerances == {5}
\* defaultSwapAmount() answers (centi-ether)
SwapAmounts == {5}
Balances == {5 * k : k \in 0..MaxBalanceSteps}
GasPrices == {30 * k : k \in 0..MaxGasPriceSteps}
\* estimate_gas answers
GasEstimates == {100003}
\* receipt['status'] values
ReceiptStatuses == {0, 1}

\* ------------------------------------------------------ program constants
\* Decimal('0.05') ether added to the required balance, in centi-ether
GasBuffer == 5
\* to_wei(20, 'gwei'), in gwei
FallbackGasPrice == 20
FallbackGasLimit == 500000

NoValue == -1
NoTx == [nonce |-> NoValue, gas |-> NoValue, gasPrice |-> NoValue,
         value |-> NoValue, min_usdc_out |-> NoValue, cycle |-> 0]

VARIABLES
    \* process environment read by FarmBot.__init__
    private_key, contract_address, connected,
    \* command line
    mode,
    \* configuration (self.*)
    max_gas_price, min_eth_balance, slippage_tolerance,
    \* control
    pc, cycle,
    \* run_once / execute_swap locals
    status, should_execute, default_swap_amount, account_balance,
    gas_price, gas_limit, estimate_call, nonce, transaction, receipt,
    success,
    \* the chain
    chain_nonce, pending,
    \* history: the calls and the outcome of the current cycle, whether its
    \* gas price read and gas estimate succeeded, the cycle the nonce was
    \* read in, and the outcomes of the cycles before
    calls, outcome, gas_price_ok, gas_estimate_ok, nonce_cycle, history,
    \* the last application of a pure function: its inputs and its result
    applied

env    == <<private_key, contract_address, connected, mode>>
config == <<max_gas_price, min_eth_balance, slippage_tolerance>>
locals == <<status, should_execute, default_swap_amount, account_balance,
            gas_price, gas_limit, estimate_call, nonce, transaction,
            receipt, success>>
chain  == <<chain_nonce, pending>>
hist   == <<calls, outcome, gas_price_ok, gas_estimate_ok, nonce_cycle,
            history>>
vars   == <<env, config, pc, cycle, locals, chain, hist, applied>>

NoStatus == [ok |-> FALSE, should_execute |-> FALSE]
NoCall == [amount |-> NoValue, min_usdc_out |-> NoValue, value |-> NoValue,
           gas_estimate |-> NoValue]
NotApplied == [fn |-> "none"]

Init ==
    /\ private_key \in BOOLEAN
    /\ contract_address \in BOOLEAN
    /\ connected \in BOOLEAN
    /\ mode \in Modes
    /\ max_gas_price \in MaxGasPrices
    /\ min_eth_balance \in MinEthBalances
    /\ slippage_tolerance \in SlippageTolerances
    /\ pc = "main"
    /\ cycle = 0
    /\ status = NoStatus
    /\ should_execute = FALSE
    /\ default_swap_amount = NoValue
    /\ account_balance = NoValue
    /\ gas_price = NoValue
    /\ gas_limit = NoValue
    /\ estimate_call = NoCall
    /\ nonce = NoValue
    /\ transaction = NoTx
    /\ receipt = NoValue
    /\ success = FALSE
    /\ chain_nonce = 0
    /\ pending = {}
    /\ calls = <<>>
    /\ outcome = "none"
    /\ gas_price_ok = FALSE
    /\ gas_estimate_ok = FALSE
    /\ nonce_cycle = 0
    /\ history = <<>>
    /\ applied = NotApplied

\* ------------------------------------------------------- pure helpers
Min(a, b) == IF a <= b THEN a ELSE b

\* number of occurrences of op in a call history
RECURSIVE Count(_, _)
Count(op, log) ==
    IF log = <<>> THEN 0
    ELSE (IF Head(log) = op THEN 1 ELSE 0) + Count(op, Tail(log))

\* mutant: an observed price of zero taken for a missing one
get_gas_price_falsy(read_ok, observed, max_gwei) ==
    IF read_ok /\ observed # 0 THEN Min(observed, max_gwei)
    ELSE FallbackGasPrice

\* get_gas_price: the observed price clamped to the configured maximum, or
\* the fixed fallback when the read raised
get_gas_price(read_ok, observed, max_gwei) ==
    IF read_ok THEN Min(observed, max_gwei) ELSE FallbackGasPrice

\* required_balance = eth_amount + self.min_eth_balance + Decimal('0.05')
required_balance(eth_amount, min_balance) ==
    eth_amount + min_balance + GasBuffer

\* mutant: the boundary balance counted as insufficient
insufficient_balance_at_boundary(balance, required) == balance <= required

\* the balance test of execute_swap: TRUE when the swap is skipped
insufficient_balance(balance, required) == balance < required

\* mutant: the tolerance added instead of taken off
estimate_usdc_output_raised(eth_amount, slippage) ==
    eth_amount * (100 + slippage) * 250000

\* estimate_usdc_output followed by int(. * 1e6): micro-USDC for an amount
\* in centi-ether at 2500 USD per ether and a slippage in percent
\*   (c / 100) * 2500 * ((100 - s) / 100) * 10^6  =  c * (100 - s) * 250000
estimate_usdc_output(eth_amount, slippage) ==
    eth_amount * (100 - slippage) * 250000

\* mutant: the buffered estimate rounded up
buffered_gas_limit_rounded_up(gas_estimate) == (gas_estimate * 12 + 9) \div 10

\* gas_limit = int(gas_estimate * 1.2)
buffered_gas_limit(gas_estimate) == (gas_estimate * 12) \div 10

\* mutant: any receipt taken for a success
receipt_success_any(receipt_status) == receipt_status \in {0, 1}

\* receipt['status'] == 1
receipt_success(receipt_status) == receipt_status = 1

\* what the node does with a raw transaction: it takes the account's next
\* nonce only, and a transaction that competes with a pending one of the same
\* nonce only when it raises the gas price by at least 10%
node_accepts(tx, mined_count, pool) ==
    /\ tx.nonce = mined_count
    /\ \A p \in pool : p.nonce = tx.nonce =>
           /\ tx.gasPrice > p.gasPrice
           /\ tx.gasPrice * 10 >= p.gasPrice * 11

\* ------------------------------------------------------------ positions
Terminated == {"exit_ok", "exit_fail", "stopped", "aborted"}
InExecuteSwap == {"es_should_execute", "es_swap_amount", "es_balance",
                  "es_gas_price", "es_estimate", "es_nonce", "es_build",
                  "es_send", "es_wait"}

\* each action extends the history of the cycle with the calls it makes
Log(ops) == calls' = calls \o ops

\* ------------------------------------------------------------ main
\* FarmBot.__init__ under main's try: a missing key or address or a failed
\* connectivity check raises, and main returns 1
\* mutant: the connectivity check is left out
construction_raises_unchecked(key, address, is_connected) ==
    ~key \/ ~address

\* the three checks of __init__: PRIVATE_KEY, CONTRACT_ADDRESS, is_connected()
construction_raises(key, address, is_connected) ==
    ~key \/ ~address \/ ~is_connected

Construct ==
    /\ pc = "main"
    /\ pc' = IF construction_raises(private_key, contract_address, connected)
             THEN "exit_fail" ELSE "constructed"
    /\ UNCHANGED <<env, config, cycle, locals, chain, hist, applied>>

\* main: --status calls get_status, --once and the daemon enter run_once
Dispatch ==
    /\ pc = "constructed"
    /\ pc' = "get_status"
    /\ cycle' = IF mode = "status" THEN 0 ELSE 1
    /\ UNCHANGED <<env, config, locals, chain, hist, applied>>

\* mutant: --status is not told apart and enters run_once like the others
after_get_status_acting(m) == "run_once_check"

\* what main does with the status: --status prints it, the other modes are
\* inside run_once and go on to its checks
after_get_status(m) == IF m = "status" THEN "print_status" ELSE "run_once_check"

\* get_status: getStatus().call() and then get_eth_balance(); either raising
\* yields the empty dict
GetStatus ==
    /\ pc = "get_status"
    /\ \/ /\ Log(<<"getStatus">>)
          /\ status' = NoStatus
       \/ /\ Log(<<"getStatus", "get_balance">>)
          /\ status' = NoStatus
       \/ \E should_exec \in BOOLEAN :
          /\ Log(<<"getStatus", "get_balance">>)
          /\ status' = [ok |-> TRUE, should_execute |-> should_exec]
    /\ pc' = after_get_status(mode)
    /\ UNCHANGED <<env, config, cycle, should_execute, default_swap_amount,
                  account_balance, gas_price, gas_limit, estimate_call,
                  nonce, transaction, receipt, success, chain, outcome,
                  gas_price_ok, gas_estimate_ok, nonce_cycle, history,
                  applied>>

\* main --status: print the status and return 0
PrintStatus ==
    /\ pc = "print_status"
    /\ pc' = "exit_ok"
    /\ UNCHANGED <<env, config, cycle, locals, chain, hist, applied>>

\* ------------------------------------------------------------ run_once
\* mutant: the empty status is not noticed
status_failed_ignored(st) == FALSE

\* `if not status`: the status read failed
status_failed(st) == ~st.ok

\* mutant: execute_swap is called whatever the status read says
conditions_met_always(st) == TRUE

\* `if status['should_execute']`: the status read says to trade
conditions_met(st) == st.should_execute

\* if not status: return
RunOnceStatusFailed ==
    /\ pc = "run_once_check"
    /\ status_failed(status)
    /\ outcome' = "Failed_OracleUnavailable"
    /\ pc' = "cycle_done"
    /\ UNCHANGED <<env, config, cycle, status, should_execute,
                  default_swap_amount, account_balance, gas_price, gas_limit,
                  estimate_call, nonce, transaction, receipt, success,
                  chain_nonce, pending, calls, gas_price_ok, gas_estimate_ok,
                  nonce_cycle, history, applied>>

\* status['should_execute'] false: wait for better conditions
RunOnceWaiting ==
    /\ pc = "run_once_check"
    /\ ~status_failed(status)
    /\ ~conditions_met(status)
    /\ outcome' = "Skipped_signal"
    /\ pc' = "cycle_done"
    /\ UNCHANGED <<env, config, cycle, status, should_execute,
                  default_swap_amount, account_balance, gas_price, gas_limit,
                  estimate_call, nonce, transaction, receipt, success,
                  chain_nonce, pending, calls, gas_price_ok, gas_estimate_ok,
                  nonce_cycle, history, applied>>

\* status['should_execute'] true: call execute_swap
RunOnceExecute ==
    /\ pc = "run_once_check"
    /\ ~status_failed(status)
    /\ conditions_met(status)
    /\ pc' = "es_should_execute"
    /\ UNCHANGED <<env, config, cycle, status, should_execute,
                  default_swap_amount, account_balance, gas_price, gas_limit,
                  estimate_call, nonce, transaction, receipt, success,
                  chain_nonce, pending, calls, outcome, gas_price_ok,
                  gas_estimate_ok, nonce_cycle, history, applied>>

\* ------------------------------------------------------------ execute_swap
\* mutant: a confirmation timeout sends the transaction again
Raise_resubmit(kind) ==
    IF kind = "Failed_ConfirmationTimeout"
    THEN /\ pc' = "es_send"
         /\ UNCHANGED <<outcome, success>>
    ELSE /\ outcome' = kind
         /\ success' = FALSE
         /\ pc' = "cycle_done"

\* mutant: the exception leaves execute_swap and run_once, run_daemon logs
\* the crash and raises it again, and main returns 1
Raise_propagating(kind) ==
    /\ outcome' = kind
    /\ success' = FALSE
    /\ pc' = IF mode = "daemon" THEN "exit_fail" ELSE "cycle_done"

\* mutant: the receipt wait has no timeout to raise
Raise_unbounded_wait(kind) ==
    /\ kind # "Failed_ConfirmationTimeout"
    /\ outcome' = kind
    /\ success' = FALSE
    /\ pc' = "cycle_done"

\* except Exception: log and return False
Raise(kind) ==
    /\ outcome' = kind
    /\ success' = FALSE
    /\ pc' = "cycle_done"

\* mutant: every return of execute_swap that is not an exception reports
\* success
Return_true(kind, result) ==
    /\ outcome' = kind
    /\ success' = TRUE
    /\ pc' = "cycle_done"

\* return False / return True
Return(kind, result) ==
    /\ outcome' = kind
    /\ success' = result
    /\ pc' = "cycle_done"

\* mutant: the answer of shouldExecute is not looked at
signal_not_met_ignored(answer) == FALSE

\* `if not should_execute`: the threshold is not met
signal_not_met(answer) == ~answer

\* shouldExecute().call(); a false answer skips the execution
ShouldExecute ==
    /\ pc = "es_should_execute"
    /\ Log(<<"shouldExecute">>)
    /\ \/ /\ Raise("Failed_ReadError")
          /\ UNCHANGED should_execute
       \/ \E answer \in BOOLEAN :
          /\ should_execute' = answer
          /\ IF signal_not_met(answer)
             THEN Return("Skipped_signal", FALSE)
             ELSE /\ pc' = "es_swap_amount"
                  /\ UNCHANGED <<outcome, success>>
    /\ UNCHANGED <<env, config, cycle, status, default_swap_amount,
                  account_balance, gas_price, gas_limit, estimate_call,
                  nonce, transaction, receipt, chain_nonce, pending,
                  gas_price_ok, gas_estimate_ok, nonce_cycle, history,
                  applied>>

\* defaultSwapAmount().call()
DefaultSwapAmount ==
    /\ pc = "es_swap_amount"
    /\ Log(<<"defaultSwapAmount">>)
    /\ \/ /\ Raise("Failed_ReadError")
          /\ UNCHANGED default_swap_amount
       \/ \E amount \in SwapAmounts :
          /\ default_swap_amount' = amount
          /\ pc' = "es_balance"
          /\ UNCHANGED <<outcome, success>>
    /\ UNCHANGED <<env, config, cycle, status, should_execute,
                  account_balance, gas_price, gas_limit, estimate_call,
                  nonce, transaction, receipt, chain_nonce, pending,
                  gas_price_ok, gas_estimate_ok, nonce_cycle, history,
                  applied>>

\* get_eth_balance() and the comparison with required_balance
CheckBalance ==
    /\ pc = "es_balance"
    /\ Log(<<"get_balance">>)
    /\ \/ /\ Raise("Failed_ReadError")
          /\ UNCHANGED account_balance
       \/ \E balance \in Balances :
          /\ account_balance' = balance
          /\ IF insufficient_balance(balance,
                    required_balance(default_swap_amount, min_eth_balance))
             THEN Return("Skipped_reserve", FALSE)
             ELSE /\ pc' = "es_gas_price"
                  /\ UNCHANGED <<outcome, success>>
    /\ UNCHANGED <<env, config, cycle, status, should_execute,
                  default_swap_amount, gas_price, gas_limit, estimate_call,
                  nonce, transaction, receipt, chain_nonce, pending,
                  gas_price_ok, gas_estimate_ok, nonce_cycle, history,
                  applied>>

\* gas_price = self.get_gas_price(); the read of w3.eth.gas_price may raise,
\* get_gas_price itself never does
GetGasPrice ==
    /\ pc = "es_gas_price"
    /\ Log(<<"gas_price">>)
    /\ \E read_ok \in BOOLEAN, observed \in GasPrices :
          /\ gas_price' = get_gas_price(read_ok, observed, max_gas_price)
          /\ gas_price_ok' = read_ok
    /\ pc' = "es_estimate"
    /\ UNCHANGED <<env, config, cycle, status, should_execute,
                  default_swap_amount, account_balance, gas_limit,
                  estimate_call, nonce, transaction, receipt, success,
                  chain_nonce, pending, outcome, gas_estimate_ok,
                  nonce_cycle, history, applied>>

\* mutant: a failed estimate is left to the outer handler and ends the cycle
EstimateFailed_aborting ==
    /\ gas_estimate_ok' = FALSE
    /\ outcome' = "Failed_GasEstimation"
    /\ success' = FALSE
    /\ pc' = "cycle_done"
    /\ UNCHANGED gas_limit

\* mutant: the fallback path goes straight to building the transaction
EstimateFailed_skipping_nonce ==
    /\ gas_estimate_ok' = FALSE
    /\ gas_limit' = FallbackGasLimit
    /\ pc' = "es_build"
    /\ UNCHANGED <<outcome, success>>

\* the inner `except Exception`: log, take the fallback limit and go on
EstimateFailed ==
    /\ gas_estimate_ok' = FALSE
    /\ gas_limit' = FallbackGasLimit
    /\ pc' = "es_nonce"
    /\ UNCHANGED <<outcome, success>>

\* swapETHForUSDC(default_swap_amount, min_usdc_out_wei).estimate_gas(
\* {'from': ..., 'value': default_swap_amount}) and what the node answered
estimate_gas(amount, min_out, answer) ==
    [amount |-> amount, min_usdc_out |-> min_out, value |-> amount,
     gas_estimate |-> answer]

\* estimate_gas under its own try: the buffered estimate, or the fallback
EstimateGas ==
    /\ pc = "es_estimate"
    /\ Log(<<"estimate_gas">>)
    /\ \E answer \in GasEstimates \cup {NoValue} :
          estimate_call' =
              estimate_gas(default_swap_amount,
                           estimate_usdc_output(default_swap_amount,
                                                slippage_tolerance),
                           answer)
    /\ \/ \E gas_estimate \in GasEstimates :
          /\ estimate_call'.gas_estimate = gas_estimate
          /\ gas_limit' = buffered_gas_limit(gas_estimate)
          /\ gas_estimate_ok' = TRUE
          /\ pc' = "es_nonce"
          /\ UNCHANGED <<outcome, success>>
       \/ /\ estimate_call'.gas_estimate = NoValue
          /\ EstimateFailed
    /\ UNCHANGED <<env, config, cycle, status, should_execute,
                  default_swap_amount, account_balance, gas_price, nonce,
                  transaction, receipt, chain_nonce, pending, gas_price_ok,
                  nonce_cycle, history, applied>>

\* mutant: a nonce read once is kept for the cycles that follow
ReadNonce_cached ==
    IF nonce = NoValue
    THEN /\ nonce' = chain_nonce
         /\ nonce_cycle' = cycle
    ELSE UNCHANGED <<nonce, nonce_cycle>>

\* nonce = get_transaction_count(address): the count of mined transactions
ReadNonce ==
    /\ nonce' = chain_nonce
    /\ nonce_cycle' = cycle

\* the nonce fetch of execute_swap; the call may raise
GetNonce ==
    /\ pc = "es_nonce"
    /\ Log(<<"get_transaction_count">>)
    /\ \/ /\ Raise("Failed_ReadError")
          /\ UNCHANGED <<nonce, nonce_cycle>>
       \/ /\ ReadNonce
          /\ pc' = "es_build"
          /\ UNCHANGED <<outcome, success>>
    /\ UNCHANGED <<env, config, cycle, status, should_execute,
                  default_swap_amount, account_balance, gas_price, gas_limit,
                  estimate_call, transaction, receipt, chain_nonce, pending,
                  gas_price_ok, gas_estimate_ok, history, applied>>

\* the transaction dict handed to build_transaction
build_transaction(amount, min_out, gas, price, n, c) ==
    [nonce |-> n, gas |-> gas, gasPrice |-> price, value |-> amount,
     min_usdc_out |-> min_out, cycle |-> c]

\* build_transaction and sign_transaction; either may raise
BuildAndSign ==
    /\ pc = "es_build"
    /\ \/ /\ Log(<<"build_transaction">>)
          /\ Raise("Failed_BuildError")
          /\ UNCHANGED transaction
       \/ /\ Log(<<"build_transaction", "sign_transaction">>)
          /\ Raise("Failed_BuildError")
          /\ UNCHANGED transaction
       \/ /\ Log(<<"build_transaction", "sign_transaction">>)
          /\ transaction' = build_transaction(default_swap_amount,
                 estimate_usdc_output(default_swap_amount, slippage_tolerance),
                 gas_limit, gas_price, nonce, cycle)
          /\ pc' = "es_send"
          /\ UNCHANGED <<outcome, success>>
    /\ UNCHANGED <<env, config, cycle, status, should_execute,
                  default_swap_amount, account_balance, gas_price, gas_limit,
                  estimate_call, nonce, receipt, chain_nonce, pending,
                  gas_price_ok, gas_estimate_ok, nonce_cycle, history,
                  applied>>

\* send_raw_transaction: the node takes the transaction into its pool, or
\* the call raises (rejected by the node, or an RPC error)
SendRawTransaction ==
    /\ pc = "es_send"
    /\ Log(<<"send_raw_transaction">>)
    /\ \/ /\ Raise("Failed_SubmissionError")
          /\ UNCHANGED pending
       \/ /\ node_accepts(transaction, chain_nonce, pending)
          /\ pending' = pending \cup {transaction}
          /\ pc' = "es_wait"
          /\ UNCHANGED <<outcome, success>>
    /\ UNCHANGED <<env, config, cycle, status, should_execute,
                  default_swap_amount, account_balance, gas_price, gas_limit,
                  estimate_call, nonce, transaction, receipt, chain_nonce,
                  gas_price_ok, gas_estimate_ok, nonce_cycle, history,
                  applied>>

\* wait_for_transaction_receipt(tx_hash, timeout=300): the transaction is
\* mined and its receipt classified, or the wait times out or raises while
\* the transaction stays where it is
WaitForReceipt ==
    /\ pc = "es_wait"
    /\ Log(<<"wait_for_transaction_receipt">>)
    /\ \/ \E receipt_status \in ReceiptStatuses :
          /\ transaction \in pending
          /\ transaction.nonce = chain_nonce
          /\ chain_nonce' = chain_nonce + 1
          /\ pending' = {p \in pending : p.nonce # transaction.nonce}
          /\ receipt' = receipt_status
          /\ IF receipt_success(receipt_status)
             THEN Return("Confirmed", TRUE)
             ELSE Return("Reverted", FALSE)
       \/ /\ Raise("Failed_ConfirmationTimeout")
          /\ UNCHANGED <<chain_nonce, pending, receipt>>
       \/ /\ Raise("Failed_ConfirmationError")
          /\ UNCHANGED <<chain_nonce, pending, receipt>>
    /\ UNCHANGED <<env, config, cycle, status, should_execute,
                  default_swap_amount, account_balance, gas_price, gas_limit,
                  estimate_call, nonce, transaction, gas_price_ok,
                  gas_estimate_ok, nonce_cycle, history, applied>>

\* ------------------------------------------------------------ run_daemon
\* `--once`: run_once has returned, main returns 0
ExitOnce ==
    /\ pc = "cycle_done"
    /\ mode = "once"
    /\ pc' = "exit_ok"
    /\ UNCHANGED <<env, config, cycle, locals, chain, hist, applied>>

\* run_once has returned inside the loop: time.sleep(self.poll_interval).
\* The locals of the cycle are gone with its frames (the stale nonce is kept
\* in the model only to show that nothing reads it); the outcome of the
\* cycle goes to the history.
Sleep ==
    /\ pc = "cycle_done"
    /\ mode = "daemon"
    /\ pc' = "sleeping"
    /\ status' = NoStatus
    /\ should_execute' = FALSE
    /\ default_swap_amount' = NoValue
    /\ account_balance' = NoValue
    /\ gas_price' = NoValue
    /\ gas_limit' = NoValue
    /\ estimate_call' = NoCall
    /\ transaction' = NoTx
    /\ receipt' = NoValue
    /\ success' = FALSE
    /\ calls' = <<>>
    /\ outcome' = "none"
    /\ gas_price_ok' = FALSE
    /\ gas_estimate_ok' = FALSE
    /\ history' = Append(history, outcome)
    /\ UNCHANGED <<env, config, cycle, nonce, chain, nonce_cycle, applied>>

\* while True: the sleep is over and run_once is entered again
NextCycle ==
    /\ pc = "sleeping"
    /\ cycle < MaxCycles
    /\ cycle' = cycle + 1
    /\ pc' = "get_status"
    /\ UNCHANGED <<env, config, locals, chain, hist, applied>>

\* KeyboardInterrupt is not an Exception: no handler of get_status,
\* execute_swap or main catches it.  Inside run_daemon's try it unwinds to
\* `except KeyboardInterrupt` from wherever the cycle is; elsewhere it ends
\* the process.
KeyboardInterrupt ==
    /\ pc \notin Terminated
    /\ pc' = IF mode = "daemon" /\ pc \notin {"main", "constructed"}
             THEN "stopped" ELSE "aborted"
    /\ UNCHANGED <<env, config, cycle, locals, chain, hist, applied>>

\* ------------------------------------------------------------ the chain
\* a pending transaction that nobody is waiting for is mined: the account's
\* transaction count grows and its competitors for the nonce are dropped
Mine ==
    /\ pc \notin Terminated
    /\ \E tx \in pending :
          /\ tx.nonce = chain_nonce
          /\ ~(pc = "es_wait" /\ tx = transaction)
          /\ chain_nonce' = chain_nonce + 1
          /\ pending' = {p \in pending : p.nonce # tx.nonce}
    /\ UNCHANGED <<env, config, pc, cycle, locals, hist, applied>>

\* ------------------------------------------------------------ specification
Next ==
    \/ Construct
    \/ Dispatch
    \/ GetStatus
    \/ PrintStatus
    \/ RunOnceStatusFailed
    \/ RunOnceWaiting
    \/ RunOnceExecute
    \/ ShouldExecute
    \/ DefaultSwapAmount
    \/ CheckBalance
    \/ GetGasPrice
    \/ EstimateGas
    \/ GetNonce
    \/ BuildAndSign
    \/ SendRawTransaction
    \/ WaitForReceipt
    \/ ExitOnce
    \/ Sleep
    \/ NextCycle
    \/ KeyboardInterrupt
    \/ Mine

Spec == Init /\ [][Next]_vars

\* ------------------------------------------------ the pure functions alone
\* the inputs of one application of get_gas_price or of estimate_usdc_output
\* (the latter with two tolerances, to compare their results)
Applications ==
    [fn : {"get_gas_price"}, read_ok : BOOLEAN, observed : 0..MaxObserved,
     ceiling : 0..MaxCeiling, result : {NoValue}]
    \cup
    [fn : {"estimate_usdc_output"}, amount : 0..MaxAmount,
     slippage : 0..MaxSlippage, slippage2 : 0..MaxSlippage,
     result : {NoValue}, result2 : {NoValue}]

PureInit ==
    /\ private_key = TRUE
    /\ contract_address = TRUE
    /\ connected = TRUE
    /\ mode = "status"
    /\ max_gas_price = 50
    /\ min_eth_balance = 10
    /\ slippage_tolerance = 5
    /\ pc = "constructed"
    /\ cycle = 0
    /\ status = NoStatus
    /\ should_execute = FALSE
    /\ default_swap_amount = NoValue
    /\ account_balance = NoValue
    /\ gas_price = NoValue
    /\ gas_limit = NoValue
    /\ estimate_call = NoCall
    /\ nonce = NoValue
    /\ transaction = NoTx
    /\ receipt = NoValue
    /\ success = FALSE
    /\ chain_nonce = 0
    /\ pending = {}
    /\ calls = <<>>
    /\ outcome = "none"
    /\ gas_price_ok = FALSE
    /\ gas_estimate_ok = FALSE
    /\ nonce_cycle = 0
    /\ history = <<>>
    /\ applied \in Applications

\* get_gas_price() on the drawn inputs
ApplyGetGasPrice ==
    /\ applied.fn = "get_gas_price"
    /\ applied.result = NoValue
    /\ applied' = [applied EXCEPT !.result =
                      get_gas_price(applied.read_ok, applied.observed,
                                    applied.ceiling)]
    /\ UNCHANGED <<env, config, pc, cycle, locals, chain, hist>>

\* estimate_usdc_output() and the conversion to micro-USDC on the drawn
\* inputs, once for each tolerance
ApplyEstimateUsdcOutput ==
    /\ applied.fn = "estimate_usdc_output"
    /\ applied.result = NoValue
    /\ applied' = [applied EXCEPT
                      !.result = estimate_usdc_output(applied.amount,
                                                      applied.slippage),
                      !.result2 = estimate_usdc_output(applied.amount,
                                                       applied.slippage2)]
    /\ UNCHANGED <<env, config, pc, cycle, locals, chain, hist>>

PureNext ==
    \/ ApplyGetGasPrice
    \/ ApplyEstimateUsdcOutput

PureSpec == PureInit /\ [][PureNext]_vars

\* ------------------------------------------------------------ scheduling
\* the steps the process takes by itself: every call other than the receipt
\* wait returns or raises, and time.sleep returns
Program ==
    \/ Construct
    \/ Dispatch
    \/ GetStatus
    \/ PrintStatus
    \/ RunOnceStatusFailed
    \/ RunOnceWaiting
    \/ RunOnceExecute
    \/ ShouldExecute
    \/ DefaultSwapAmount
    \/ CheckBalance
    \/ GetGasPrice
    \/ EstimateGas
    \/ GetNonce
    \/ BuildAndSign
    \/ SendRawTransaction
    \/ ExitOnce
    \/ Sleep
    \/ NextCycle

\* wait_for_transaction_receipt(tx_hash, timeout=300) raising TimeExhausted:
\* the one exit of the wait that needs nothing from the chain
WaitTimesOut == WaitForReceipt /\ outcome' = "Failed_ConfirmationTimeout"

\* the process keeps running, and a wait that nothing else ends times out;
\* the receipt, the errors, the interrupt and the mining of other
\* transactions may or may not come
FairSpec == Spec /\ WF_vars(Program) /\ WF_vars(WaitTimesOut)

TypeOK ==
    /\ pc \in Terminated \cup InExecuteSwap \cup
          {"main", "constructed", "get_status", "print_status",
           "run_once_check", "cycle_done", "sleeping"}
    /\ cycle \in 0..MaxCycles
    /\ chain_nonce \in 0..MaxCycles
    /\ \A tx \in pending : tx.cycle \in 1..cycle
    /\ estimate_call = NoCall \/ estimate_call.amount \in SwapAmounts
    /\ applied = NotApplied

\* ------------------------------------------------------------ properties
\* the cycle has run to its end
Ended == pc \in {"cycle_done", "exit_ok"}

\* the chain-write interface: estimateGas, sign, sendRawTransaction,
\* waitForReceipt
ChainWrites == {"estimate_gas", "sign_transaction", "send_raw_transaction",
                "wait_for_transaction_receipt"}
NoChainWrites == \A i \in 1..Len(calls) : calls[i] \notin ChainWrites
Sends == Count("send_raw_transaction", calls)

\* the signal was read as false in this cycle, by get_status or by
\* shouldExecute
SignalReadFalse ==
    /\ cycle >= 1
    /\ \/ status.ok /\ ~status.should_execute
       \/ /\ Count("shouldExecute", calls) = 1
          /\ ~should_execute
          /\ outcome # "Failed_ReadError"

\* C1: a cycle that reads the signal as false ends as Skipped (signal not
\* met), takes no further step of execute_swap and makes no chain-write call
C1_SignalFalseSkips ==
    SignalReadFalse =>
        /\ NoChainWrites
        /\ pc \notin InExecuteSwap
        /\ outcome \in {"none", "Skipped_signal"}
        /\ Ended => outcome = "Skipped_signal"

\* C1 witness: get_status read true, shouldExecute read false, cycle skipped
C1_Witness ==
    /\ pc = "cycle_done"
    /\ status.should_execute
    /\ Count("shouldExecute", calls) = 1
    /\ ~should_execute
    /\ outcome = "Skipped_signal"

\* C2: with the balance read, balance < tradeSize + minReserve + 0.05 ends
\* the cycle as Skipped (insufficient reserve) without any chain write, and
\* balance >= that sum (equality included) goes on to gas pricing (unless
\* the process is interrupted first)
C2_ReserveCheck ==
    account_balance # NoValue =>
        IF account_balance < default_swap_amount + min_eth_balance + 5
        THEN /\ outcome = "Skipped_reserve"
             /\ pc \notin InExecuteSwap
             /\ NoChainWrites
        ELSE /\ outcome # "Skipped_reserve"
             /\ \/ pc = "es_gas_price"
                \/ Count("gas_price", calls) = 1
                \/ pc \in {"stopped", "aborted"}

\* C2 witness: the balance equals the required sum and gas pricing was done
C2_Witness ==
    /\ account_balance = default_swap_amount + min_eth_balance + 5
    /\ Count("gas_price", calls) = 1
    /\ pc = "es_estimate"

\* C3: no cycle calls send_raw_transaction twice, and a cycle that ends as
\* Confirmed, Reverted, Failed by submission error or Failed by confirmation
\* timeout (or error) has called it exactly once
C3_OneSubmissionPerCycle ==
    /\ Sends <= 1
    /\ outcome \in {"Confirmed", "Reverted", "Failed_SubmissionError",
                    "Failed_ConfirmationTimeout", "Failed_ConfirmationError"}
           => Sends = 1 /\ pc \notin InExecuteSwap

\* C3 witness: a cycle that timed out waiting, after its one submission
C3_Witness ==
    /\ outcome = "Failed_ConfirmationTimeout"
    /\ Sends = 1
    /\ pc = "cycle_done"

\* C4: signal true, balance sufficient, gas estimate succeeded and receipt
\* status success give Confirmed with a submitted gas price within the
\* configured ceiling, whether or not the gas price read succeeded
C4_GasPriceWithinCeiling ==
    (should_execute /\ gas_estimate_ok /\ receipt = 1) =>
        /\ outcome = "Confirmed"
        /\ transaction.gasPrice <= max_gas_price

\* C5: the daemon loop is never left on a shutdown request between a
\* submission and the classification of its receipt: when the loop has
\* stopped, a cycle that has sent a transaction has its terminal outcome
C5_ShutdownAtCycleBoundary ==
    pc = "stopped" => (Sends = 0 \/ outcome # "none")

\* C6: at most one transaction is in flight: no cycle submits while a
\* transaction of an earlier cycle is unresolved, and no two unresolved
\* transactions carry the same nonce
C6_OneInFlight ==
    /\ pc = "es_wait" => \A tx \in pending : tx.cycle = cycle
    /\ Cardinality(pending) <= 1
    /\ \A t1 \in pending, t2 \in pending : t1.nonce = t2.nonce => t1 = t2

\* C7: the step in which the gas estimate fails leads on to the submission
\* stage with the fallback gas limit and no outcome, and a transaction sent
\* after a failed estimate carries the gas limit 500000
C7_EstimateFailureStep ==
    /\ (pc = "es_estimate" /\ calls' = Append(calls, "estimate_gas")
            /\ ~gas_estimate_ok')
           => pc' = "es_nonce" /\ gas_limit' = 500000 /\ outcome' = "none"
    /\ (pc = "es_send" /\ calls' = Append(calls, "send_raw_transaction")
            /\ ~gas_estimate_ok)
           => transaction.gas = 500000
C7_EstimateFailureNeverAborts == [][C7_EstimateFailureStep]_vars

\* C7 witness: the estimate failed and the transaction was sent with 500000
C7_Witness ==
    /\ Count("estimate_gas", calls) = 1
    /\ ~gas_estimate_ok
    /\ pc = "es_wait"
    /\ transaction \in pending
    /\ transaction.gas = 500000

\* the status read of this cycle failed
StatusReadFailed == cycle >= 1 /\ Len(calls) >= 1 /\ ~status.ok

\* C8: a failed status read ends the cycle as Failed(OracleUnavailable):
\* nothing but the status read itself was called, execute_swap is not
\* entered and no transaction is built
C8_OracleFailureEndsCycle ==
    StatusReadFailed =>
        /\ pc \notin InExecuteSwap
        /\ Len(calls) <= 2
        /\ \A i \in 1..Len(calls) : calls[i] \in {"getStatus", "get_balance"}
        /\ transaction = NoTx
        /\ outcome \in {"none", "Failed_OracleUnavailable"}
        /\ Ended => outcome = "Failed_OracleUnavailable"

\* C8 witness: the cycle of a failed getStatus call is over
C8_Witness ==
    /\ calls = <<"getStatus">>
    /\ outcome = "Failed_OracleUnavailable"
    /\ pc = "cycle_done"

\* C9: a failed send_raw_transaction ends the cycle as
\* Failed(SubmissionError) with one send and no wait, and every submitted
\* transaction carries the nonce read in its own cycle
C9_SubmissionErrorNoRetry ==
    /\ outcome = "Failed_SubmissionError" =>
           /\ Sends = 1
           /\ Count("wait_for_transaction_receipt", calls) = 0
           /\ pc \notin InExecuteSwap
           /\ ~success
    /\ Sends >= 1 =>
           /\ transaction.nonce = nonce
           /\ transaction.cycle = cycle
           /\ nonce_cycle = cycle

\* C9 witness: the cycle after a submission error submits with its own nonce
C9_Witness ==
    /\ cycle = 2
    /\ history = <<"Failed_SubmissionError">>
    /\ Sends = 1
    /\ nonce_cycle = 2
    /\ pc = "es_wait"

\* C10: receipt status 1 gives Confirmed, receipt status 0 gives Reverted,
\* and a Reverted cycle is over after its single submission
C10_ReceiptClassification ==
    /\ receipt = 1 => outcome = "Confirmed" /\ success
    /\ receipt = 0 => outcome = "Reverted" /\ ~success
    /\ outcome = "Confirmed" => receipt = 1
    /\ outcome = "Reverted" =>
           /\ receipt = 0
           /\ Sends = 1
           /\ Count("wait_for_transaction_receipt", calls) = 1
           /\ pc \notin InExecuteSwap

\* C10 witness: a cycle ended as Reverted
C10_Witness ==
    /\ receipt = 0
    /\ outcome = "Reverted"
    /\ Sends = 1
    /\ pc = "cycle_done"

\* the cycle ended in a failure
Failures == {"Reverted", "Failed_OracleUnavailable", "Failed_ReadError",
             "Failed_BuildError", "Failed_SubmissionError",
             "Failed_ConfirmationTimeout", "Failed_ConfirmationError"}

\* C11: in daemon mode no failure of a cycle ends the loop.  Once the loop
\* runs, the process is never found exited or crashed (it stops on the
\* operator's interrupt only); a cycle that ended, whatever its outcome, can
\* go to sleep, and its next step is the sleep (or the interrupt); the sleep
\* is followed by the next cycle (or the interrupt)
C11_LoopState ==
    mode = "daemon" =>
        /\ cycle >= 1 => pc \notin {"exit_ok", "exit_fail", "aborted"}
        /\ pc = "cycle_done" => ENABLED Sleep
        /\ (pc = "sleeping" /\ cycle < MaxCycles) => ENABLED NextCycle
C11_LoopStep ==
    mode = "daemon" =>
        /\ (pc = "cycle_done" /\ pc' # pc) =>
               /\ pc' \in {"sleeping", "stopped"}
               /\ pc' = "sleeping" => history' = Append(history, outcome)
        /\ (pc = "sleeping" /\ pc' # pc) =>
               \/ pc' = "get_status" /\ cycle' = cycle + 1
               \/ pc' = "stopped"
C11_FailureKeepsLoop == [](C11_LoopState) /\ [][C11_LoopStep]_vars

C11_Witness ==
    /\ mode = "daemon"
    /\ cycle = 2
    /\ pc = "get_status"
    /\ history = <<"Failed_ReadError">>

\* C12: whenever the observed gas price was obtained, get_gas_price returns
\* the smaller of the observed price and the ceiling, so an observed price of
\* zero gives zero and not the fallback; the fallback of 20 gwei is returned
\* when the price could not be obtained, and in no other case unless it is
\* that smaller value itself
C12_GasPriceCheck ==
    (applied.fn = "get_gas_price" /\ applied.result # NoValue) =>
        /\ applied.read_ok =>
               /\ applied.result <= applied.observed
               /\ applied.result <= applied.ceiling
               /\ applied.result \in {applied.observed, applied.ceiling}
        /\ (applied.read_ok /\ applied.observed = 0) => applied.result = 0
        /\ ~applied.read_ok => applied.result = 20
        /\ (applied.result = 20 /\ applied.observed # 20
               /\ applied.ceiling # 20) => ~applied.read_ok
        /\ applied.result >= 0

C12_Witness ==
    /\ applied.fn = "get_gas_price"
    /\ applied.read_ok
    /\ applied.observed = 0
    /\ applied.ceiling = 25
    /\ applied.result = 0

\* C13: the minimum output is the input amount at 2500 USD per ether less the
\* slippage share (in micro-USDC, for an amount in centi-ether and a slippage
\* in percent: 25 * amount USD, times (100 - slippage) / 100, times 10^6, the
\* last two being 10^4 together); it
\* does not grow with the slippage, and with no slippage it is the amount at
\* the rate
C13_MinOutput ==
    (applied.fn = "estimate_usdc_output" /\ applied.result # NoValue) =>
        /\ applied.result =
               (25 * applied.amount * (100 - applied.slippage)) * 10000
        /\ applied.slippage <= applied.slippage2 =>
               applied.result >= applied.result2
        /\ applied.slippage = 0 =>
               applied.result = 25 * applied.amount * 1000000

C13_Witness ==
    /\ applied.fn = "estimate_usdc_output"
    /\ applied.amount = 5
    /\ applied.slippage = 5
    /\ applied.slippage2 = 50
    /\ applied.result = 118750000
    /\ applied.result2 = 62500000

\* C14: with the account key or the contract address missing, or the node not
\* reachable at startup, the process only fails: it is found before the
\* construction, exited with the failure status or interrupted before the
\* construction, and it has made no call to the oracle or the chain, run no
\* cycle and submitted nothing
C14_FailFast ==
    (~private_key \/ ~contract_address \/ ~connected) =>
        /\ pc \in {"main", "exit_fail", "aborted"}
        /\ calls = <<>>
        /\ cycle = 0
        /\ history = <<>>
        /\ pending = {}
        /\ status = NoStatus

C14_Witness ==
    /\ private_key
    /\ contract_address
    /\ ~connected
    /\ pc = "exit_fail"

\* the calls that only read: the oracle status and the account balance
StatusReads == {"getStatus", "get_balance"}

\* C15: in status mode the process only reads (the status read and the
\* balance read, once), whatever the status says: it never enters run_once or
\* execute_swap, so it never estimates gas, reads a nonce, signs or submits,
\* and it runs no cycle.  In run-once mode the process runs one cycle and
\* no second one: it never sleeps, and it has exited normally exactly when
\* that one cycle has ended with an outcome
C15_StatusOnlyReads ==
    /\ mode = "status" =>
           /\ \A i \in 1..Len(calls) : calls[i] \in StatusReads
           /\ Count("getStatus", calls) <= 1
           /\ pc \in {"main", "constructed", "get_status", "print_status"}
                     \cup {"exit_ok", "exit_fail", "aborted"}
           /\ cycle = 0
           /\ pending = {}
           /\ transaction = NoTx
           /\ nonce = NoValue
           /\ pc = "exit_ok" => Count("getStatus", calls) = 1
    /\ mode = "once" =>
           /\ cycle <= 1
           /\ history = <<>>
           /\ pc \notin {"sleeping", "stopped"}
           /\ Count("getStatus", calls) <= 1
           /\ Sends <= 1
           /\ pc = "exit_ok" => (cycle = 1 /\ outcome # "none"
                                   /\ Count("getStatus", calls) = 1)

C15_Witness ==
    /\ mode = "status"
    /\ pc = "exit_ok"
    /\ status.ok
    /\ status.should_execute
    /\ calls = <<"getStatus", "get_balance">>

\* the calls of a cycle up to the submission, in the order of the stages:
\* CheckingSignal, Sizing, GasPricing, Submitting
SubmitPath ==
    <<"getStatus", "get_balance", "shouldExecute", "defaultSwapAmount",
      "get_balance", "gas_price", "estimate_gas", "get_transaction_count",
      "build_transaction", "sign_transaction", "send_raw_transaction">>
IsPrefix(a, b) == Len(a) <= Len(b) /\ SubSeq(b, 1, Len(a)) = a

\* C16: a cycle that submits has made its calls in the order of the stages:
\* signal reads, trade size and balance, gas price and gas estimate, nonce,
\* build, sign and send, and after them the receipt wait alone.  Every
\* position of execute_swap has the calls of the stages before it behind it.
\* A skipped cycle ended at the signal reads or at the balance, before any
\* gas pricing.  The transaction built carries the nonce and the gas price
\* read by this cycle's own single reads
C16_StageOrder ==
    /\ Sends >= 1 =>
           \/ calls = SubmitPath
           \/ calls = Append(SubmitPath, "wait_for_transaction_receipt")
    /\ (cycle >= 1 /\ pc \notin Terminated) => IsPrefix(calls, SubmitPath)
           \/ calls = Append(SubmitPath, "wait_for_transaction_receipt")
    /\ pc = "es_nonce" => calls = SubSeq(SubmitPath, 1, 7)
    /\ pc = "es_build" => calls = SubSeq(SubmitPath, 1, 8)
    /\ pc = "es_send" => calls = SubSeq(SubmitPath, 1, 10)
    /\ pc = "es_wait" => calls = SubmitPath
    /\ outcome \in {"Skipped_signal", "Skipped_reserve"} =>
           calls \in {SubSeq(SubmitPath, 1, 2), SubSeq(SubmitPath, 1, 3),
                      SubSeq(SubmitPath, 1, 5)}
    /\ transaction # NoTx =>
           /\ transaction.cycle = cycle
           /\ transaction.nonce = nonce
           /\ nonce_cycle = cycle
           /\ transaction.gasPrice = gas_price
           /\ Count("get_transaction_count", calls) = 1
           /\ Count("gas_price", calls) = 1

C16_Witness ==
    /\ cycle = 2
    /\ pc = "es_wait"
    /\ calls = SubmitPath
    /\ nonce_cycle = 2
    /\ transaction.nonce = 1
    /\ transaction.gasPrice = 30

\* the positions inside an evaluation cycle
InCycle == {"get_status", "run_once_check"} \cup InExecuteSwap
\* the terminal outcomes of a cycle
TerminalOutcomes == {"Skipped_signal", "Skipped_reserve", "Confirmed"}
                        \cup Failures

\* C17: every evaluation cycle comes to its end with a terminal outcome,
\* unless the process is interrupted first; a cycle that has submitted does
\* not stay in the receipt wait, which ends with the receipt, with an error
\* or, after its 300 s, as Failed(ConfirmationTimeout)
C17_CycleTerminates ==
    /\ [](pc = "cycle_done" => outcome \in TerminalOutcomes)
    /\ [](pc \in InCycle => outcome = "none")
    /\ []((pc = "cycle_done"
              /\ Count("wait_for_transaction_receipt", calls) = 1) =>
             outcome \in {"Confirmed", "Reverted",
                          "Failed_ConfirmationTimeout",
                          "Failed_ConfirmationError"})
    /\ (cycle >= 1 /\ pc \in InCycle)
           ~> (pc = "cycle_done" \/ pc \in {"stopped", "aborted"})

C17_Witness ==
    /\ pc = "cycle_done"
    /\ outcome = "Failed_ConfirmationTimeout"
    /\ transaction \in pending
    /\ calls = Append(SubmitPath, "wait_for_transaction_receipt")

\* C18: the gas limit of a built transaction is the floor of 1.2 times the
\* node's estimate, and not below the estimate, when the estimate was
\* obtained, and 500000, with no buffer on it, when it was not; the estimate
\* was asked for the amount, the minimum output and the value that the
\* transaction carries
C18_GasLimit ==
    transaction # NoTx =>
        /\ Count("estimate_gas", calls) = 1
        /\ transaction.gas = gas_limit
        /\ gas_estimate_ok =>
               /\ estimate_call.gas_estimate \in GasEstimates
               /\ 10 * transaction.gas <= 12 * estimate_call.gas_estimate
               /\ 12 * estimate_call.gas_estimate < 10 * (transaction.gas + 1)
               /\ transaction.gas >= estimate_call.gas_estimate
        /\ ~gas_estimate_ok =>
               /\ estimate_call.gas_estimate = NoValue
               /\ transaction.gas = 500000
        /\ estimate_call.amount = transaction.value
        /\ estimate_call.value = transaction.value
        /\ estimate_call.min_usdc_out = transaction.min_usdc_out

C18_Witness ==
    /\ pc = "es_wait"
    /\ gas_estimate_ok
    /\ estimate_call = estimate_gas(5, 118750000, 100003)
    /\ transaction.gas = 120003
    /\ transaction.value = 5
    /\ transaction.min_usdc_out = 118750000

\* C19: the signal is read by the status read of run_once and again by
\* shouldExecute() in execute_swap, once each per cycle; a transaction is
\* built and submitted only when both reads of this cycle said true, and a
\* cycle whose second read said false after a true first read ends skipped
\* with nothing submitted
C19_BothReadsTrue ==
    /\ Count("getStatus", calls) <= 1
    /\ Count("shouldExecute", calls) <= 1
    /\ (transaction # NoTx \/ Sends >= 1) =>
           /\ Count("getStatus", calls) = 1
           /\ Count("shouldExecute", calls) = 1
           /\ status.ok
           /\ status.should_execute
           /\ should_execute
    /\ (Count("shouldExecute", calls) = 1 /\ ~should_execute
           /\ pc \in {"cycle_done", "exit_ok"} /\ outcome = "Skipped_signal") =>
           /\ status.should_execute
           /\ Sends = 0
           /\ transaction = NoTx
           /\ calls = SubSeq(SubmitPath, 1, 3)
    /\ (pc \in InExecuteSwap \ {"es_should_execute"}) =>
           status.should_execute /\ should_execute

C19_Witness ==
    /\ mode = "once"
    /\ pc = "exit_ok"
    /\ status.should_execute
    /\ ~should_execute
    /\ calls = <<"getStatus", "get_balance", "shouldExecute">>
    /\ outcome = "Skipped_signal"

\* C20: the cycle reports success exactly when its transaction was submitted
\* and the receipt observed for it has the success status; that ending is
\* Confirmed, and every other ending reports no success
C20_SuccessReport ==
    /\ success <=> (Sends = 1 /\ receipt = 1
                       /\ Count("wait_for_transaction_receipt", calls) = 1)
    /\ success <=> outcome = "Confirmed"
    /\ success => transaction.cycle = cycle /\ transaction \notin pending
    /\ (pc = "cycle_done" /\ outcome # "Confirmed") => ~success

C20_Witness ==
    /\ success
    /\ outcome = "Confirmed"
    /\ pc = "cycle_done"
    /\ receipt = 1
    /\ cycle = 1
    /\ Sends = 1

====
